---- MODULE Spec2Model ----
(***************************************************************************)
(* State-machine model of the NLP Query Engine front end: the App          *)
(* container, DatabaseConnector, DocumentUploader, QueryPanel and the      *)
(* pure helpers of ResultsView.  Every awaited fetch is a request in       *)
(* flight; the step that resumes the async function after the await is     *)
(* one action, parameterised by the response the service gave.             *)
(***************************************************************************)
EXTENDS Integers, Sequences, FiniteSets, TLC

\* ------------------------------------------------------------- bounds
MaxJobs == 2
MaxFiles == 2
MaxQueryLen == 2
MaxSuggestionReqs == 2
MaxHistoryReqs == 2
MaxResults == 3

\* ------------------------------------------------------ program state
VARIABLES
    \* App
    currentView, schemaData, connectionStatus, documentsCount,
    \* DatabaseConnector
    connectionString, isConnecting, dbError,
    \* DocumentUploader
    isUploading, uploadProgress, upError, formData,
    \* ingestion tasks: one per handleConnect / uploadFiles invocation
    tasks, nextJob,
    \* App, query side
    queryResults, isLoading, queryInFlight, queryPromise, queryResponse,
    \* QueryPanel
    query, suggestions, showSuggestions, suggestionReqs, queryHistory, historyReqs,
    \* the files of the selection or drop being handled
    selectedFiles,
    \* ResultsView: what the last render of the component produced, and the
    \* file it last downloaded
    rendered

jobVars == <<currentView, schemaData, connectionStatus, documentsCount,
             connectionString, isConnecting, dbError,
             isUploading, uploadProgress, upError, formData, tasks, nextJob>>

queryVars == <<queryResults, isLoading, queryInFlight, queryPromise, queryResponse,
               query, suggestions, showSuggestions, suggestionReqs, queryHistory,
               historyReqs, rendered>>

vars == <<jobVars, queryVars, selectedFiles>>

\* ------------------------------------------------------------ strings
\* A string is a sequence of one-character strings.
RECURSIVE SeqsUpTo(_, _)
SeqsUpTo(S, n) ==
    IF n = 0 THEN {<<>>}
    ELSE LET shorter == SeqsUpTo(S, n - 1)
         IN  shorter \cup {Append(t, c) : t \in shorter, c \in S}

RECURSIVE TrimStart(_)
TrimStart(s) ==
    IF s = <<>> THEN s
    ELSE IF Head(s) = " " THEN TrimStart(Tail(s)) ELSE s

RECURSIVE TrimEnd(_)
TrimEnd(s) ==
    IF s = <<>> THEN s
    ELSE IF s[Len(s)] = " " THEN TrimEnd(SubSeq(s, 1, Len(s) - 1)) ELSE s

Trim(s) == TrimEnd(TrimStart(s))

\* Connection strings typed into the input: empty, blank, and non-blank with
\* and without surrounding blanks.
ConnStrings == {<<>>, <<" ">>, <<" ", "d", " ">>}

\* ------------------------------------------------- service responses
NoProgress == -1
NoSchema == "undefined"

\* What a fetch of /api/ingestion-status/{jobId} can settle with: the promise
\* rejects (net = "reject"), or resolves with response.ok and a body that
\* response.json() parses (parse) or throws on.
Body(st, pr, sc, msg) == [status |-> st, progress |-> pr, schema |-> sc, message |-> msg]

EmptyBody == Body("", NoProgress, NoSchema, "")

StatusBodies ==
    {Body("completed", NoProgress, sc, "") : sc \in {NoSchema, "S1"}}
    \cup {Body("failed", NoProgress, NoSchema, msg) : msg \in {"", "m1"}}
    \cup {Body(st, pr, NoSchema, "") : st \in {"processing", "queued", ""},
                                       pr \in {NoProgress, 40}}

\* detail is the detail field of an error body ("" when the body has none).
StatusResponses ==
    {[net |-> "reject", ok |-> FALSE, parse |-> FALSE, body |-> EmptyBody, detail |-> ""]}
    \cup [net : {"http"}, ok : BOOLEAN, parse : {FALSE}, body : {EmptyBody}, detail : {""}]
    \cup [net : {"http"}, ok : {TRUE}, parse : {TRUE}, body : StatusBodies, detail : {""}]
    \cup [net : {"http"}, ok : {FALSE}, parse : {TRUE}, body : {EmptyBody}, detail : {"", "d1"}]
    \cup [net : {"http"}, ok : {FALSE}, parse : {TRUE},
          body : {Body("completed", NoProgress, "S1", "")}, detail : {""}]

\* What the POST of a connect or upload request can settle with.
SubmitResponses ==
    {[net |-> "reject", ok |-> FALSE, parse |-> FALSE, detail |-> ""]}
    \cup [net : {"http"}, ok : BOOLEAN, parse : {FALSE}, detail : {""}]
    \cup [net : {"http"}, ok : BOOLEAN, parse : {TRUE}, detail : {"", "d1"}]

\* Mutant of OrElse: the fallback is used whatever the first operand is.
OrElseAlwaysFallback(a, b) == b

\* a || b of JavaScript on strings: the empty (or absent) string is falsy.
OrElse(a, b) == IF a = "" THEN b ELSE a

\* ------------------------------------------------------------- tasks
Jobs == 1..MaxJobs

\* connection_string and files are the body of the POST that started the job.
IdleTask == [kind |-> "none", submit |-> 0, statusInFlight |-> 0, timers |-> 0,
             outcome |-> "none", orphan |-> FALSE, totalFiles |-> 0,
             successCalls |-> 0, failureSets |-> 0,
             connection_string |-> <<>>, files |-> <<>>]



\* -------------------------------------------------- file validation
\* A file is [name, size]; the name is a string (sequence of characters).
MaxFileSize == 10 * 1024 * 1024

supportedTypes ==
    << <<".", "p", "d", "f">>, <<".", "d", "o", "c", "x">>, <<".", "t", "x", "t">>,
       <<".", "c", "s", "v">>, <<".", "j", "s", "o", "n">> >>

\* String.prototype.toLowerCase, on the characters file names are drawn from.
LowerChar(c) ==
    CASE c = "P" -> "p" [] c = "D" -> "d" [] c = "F" -> "f" [] c = "X" -> "x"
      [] OTHER -> c

ToLowerCase(s) == [i \in 1..Len(s) |-> LowerChar(s[i])]

\* name.split('.'): the segments between the dots; a name without a dot is
\* its own single segment.
RECURSIVE Split(_)
Split(s) ==
    IF \A i \in 1..Len(s) : s[i] # "." THEN <<s>>
    ELSE LET d == CHOOSE i \in 1..Len(s) :
                      s[i] = "." /\ \A k \in 1..(i - 1) : s[k] # "."
         IN  <<SubSeq(s, 1, d - 1)>> \o Split(SubSeq(s, d + 1, Len(s)))

Pop(segs) == segs[Len(segs)]

Extension(name) == <<".">> \o ToLowerCase(Pop(Split(name)))

IsSupported(name) == \E i \in 1..Len(supportedTypes) : supportedTypes[i] = Extension(name)

IsValidSize(size) == size <= MaxFileSize

\* Mutant of IsValidFile: || in place of &&.
IsValidFileEitherCheck(file) == IsSupported(file.name) \/ IsValidSize(file.size)

IsValidFile(file) == IsSupported(file.name) /\ IsValidSize(file.size)

\* The files.forEach of handleFiles: the two lists it builds, in input order.
RECURSIVE ValidFiles(_)
ValidFiles(files) ==
    IF files = <<>> THEN <<>>
    ELSE (IF IsValidFile(Head(files)) THEN <<Head(files)>> ELSE <<>>)
         \o ValidFiles(Tail(files))

Issue(file) ==
    IF ~IsSupported(file.name) THEN "Unsupported file type"
    ELSE "File too large (max 10MB)"

RECURSIVE InvalidFiles(_)
InvalidFiles(files) ==
    IF files = <<>> THEN <<>>
    ELSE (IF IsValidFile(Head(files)) THEN <<>>
          ELSE <<[name |-> Head(files).name, issue |-> Issue(Head(files))]>>)
         \o InvalidFiles(Tail(files))

\* The uploader's error message: a text, and for the 'Invalid files: ...'
\* message the (name, issue) pairs it lists.
ErrText(t) == [text |-> t, invalid |-> <<>>]
NoError == ErrText("")
InvalidFilesError(list) == [text |-> "Invalid files", invalid |-> list]

\* Files a user can select or drop: names with a supported extension in
\* lower and upper case, with another extension, without any dot and with two
\* dots; sizes below, at and above the limit.
FileNames ==
    {<<"a", ".", "p", "d", "f">>, <<"a", ".", "P", "D", "F">>, <<"b", ".", "t", "x", "t">>,
     <<"a", ".", "e", "x", "e">>, <<"p", "d", "f">>,
     <<"a", ".", "p", "d", "f", ".", "e", "x", "e">>}
FileSizes == {1, MaxFileSize, MaxFileSize + 1}
Files == [name : FileNames, size : FileSizes]
FileLists == SeqsUpTo(Files, MaxFiles) \ {<<>>}

\* Files offered to the uploader while jobs are tracked.
PdfSmall == [name |-> <<"a", ".", "p", "d", "f">>, size |-> 1]
TxtSmall == [name |-> <<"b", ".", "t", "x", "t">>, size |-> 1]
ExeSmall == [name |-> <<"a", ".", "e", "x", "e">>, size |-> 1]
JobFileLists == {<<PdfSmall>>, <<PdfSmall, TxtSmall>>, <<ExeSmall>>, <<ExeSmall, TxtSmall>>}


\* ------------------------------------------------------ the job poller
\* Mutant of PollOutcome: the branch is chosen from data.status without the
\* response.ok test.
PollOutcomeIgnoresOk(r) ==
    IF r.net = "reject" \/ ~r.parse THEN "exception"
    ELSE IF r.body.status = "completed" THEN "completed"
    ELSE IF r.body.status = "failed" THEN "failed"
    ELSE "processing"

\* Which branch of pollConnectionStatus / pollUploadStatus a settled status
\* request takes: the catch block ("exception": fetch rejected or
\* response.json() threw), the non-2xx else branch ("httperror"), or the
\* branch chosen by data.status.
PollOutcome(r) ==
    IF r.net = "reject" \/ ~r.parse THEN "exception"
    ELSE IF ~r.ok THEN "httperror"
    ELSE IF r.body.status = "completed" THEN "completed"
    ELSE IF r.body.status = "failed" THEN "failed"
    ELSE "processing"

FailureOutcomes == {"failed", "httperror", "exception"}

\* The message setError receives on each failing branch.
PollErrorText(kind, r) ==
    CASE PollOutcome(r) = "exception" -> "Network error while checking status"
      [] PollOutcome(r) = "httperror" ->
            (IF kind = "db" THEN "Failed to check connection status"
             ELSE "Failed to check upload status")
      [] PollOutcome(r) = "failed" ->
            OrElse(r.body.message, IF kind = "db" THEN "Connection failed" ELSE "Upload failed")
      [] OTHER -> ""

\* Mutant of TimersScheduled: the setTimeout sits after the if chain.
TimersScheduledAlways(o) == 1

\* Mutant of TimersScheduled: the "still processing" branch sets two timers.
TimersScheduledTwice(o) == IF o = "processing" THEN 2 ELSE 0

\* Status requests the handler of a settled status request leaves scheduled:
\* the setTimeout of the "still processing" branch, and nothing otherwise.
TimersScheduled(o) == IF o = "processing" THEN 1 ELSE 0

\* Mutant of ClearsBusy: the flag is cleared after every status response.
ClearsBusyAlways(o) == TRUE

\* Mutant of ClearsBusy: only the 'completed' branch clears the flag.
ClearsBusyOnSuccess(o) == o = "completed"

\* Whether the branch taken calls setIsConnecting(false) / setIsUploading(false).
ClearsBusy(o) == o # "processing"

\* The task after one of its status requests settled with outcome o.
PollTask(t, o) ==
    [t EXCEPT !.statusInFlight = @ - 1,
              !.timers = @ + TimersScheduled(o),
              !.outcome = CASE o = "completed" -> "completed"
                            [] o = "failed" -> "failed"
                            [] o \in {"httperror", "exception"} -> "error"
                            [] OTHER -> @,
              !.successCalls = IF o = "completed" THEN @ + 1 ELSE @,
              !.failureSets = IF o \in FailureOutcomes THEN @ + 1 ELSE @]

\* A state setter of a component that has been unmounted has no effect.
Mounted(j) == ~tasks[j].orphan

appVars == <<currentView, schemaData, connectionStatus, documentsCount>>
dbVars == <<connectionString, isConnecting, dbError>>
upVars == <<isUploading, uploadProgress, upError>>

\* Mutant of PollConnectionStatus: a failing branch also resets what the App
\* holds of the connection.
PollConnectionStatusResetsOnFailure(j, r) ==
    LET o == PollOutcome(r) IN
    /\ tasks[j].kind = "db"
    /\ tasks[j].statusInFlight > 0
    /\ tasks' = [tasks EXCEPT ![j] = PollTask(@, o)]
    /\ isConnecting' = IF ClearsBusy(o) /\ Mounted(j) THEN FALSE ELSE isConnecting
    /\ dbError' = IF o \in FailureOutcomes /\ Mounted(j)
                  THEN PollErrorText("db", r) ELSE dbError
    /\ IF o = "completed"
       THEN /\ schemaData' = r.body.schema
            /\ connectionStatus' = "connected"
       ELSE IF o \in FailureOutcomes
       THEN /\ schemaData' = "null"
            /\ connectionStatus' = "disconnected"
       ELSE UNCHANGED <<schemaData, connectionStatus>>
    /\ UNCHANGED <<currentView, documentsCount, connectionString, upVars, formData, nextJob, queryVars, selectedFiles>>

\* pollConnectionStatus resumed after its awaits.
PollConnectionStatus(j, r) ==
    LET o == PollOutcome(r) IN
    /\ tasks[j].kind = "db"
    /\ tasks[j].statusInFlight > 0
    /\ tasks' = [tasks EXCEPT ![j] = PollTask(@, o)]
    /\ isConnecting' = IF ClearsBusy(o) /\ Mounted(j) THEN FALSE ELSE isConnecting
    /\ dbError' = IF o \in FailureOutcomes /\ Mounted(j)
                  THEN PollErrorText("db", r) ELSE dbError
    /\ IF o = "completed"
       THEN /\ schemaData' = r.body.schema
            /\ connectionStatus' = "connected"
       ELSE UNCHANGED <<schemaData, connectionStatus>>
    /\ UNCHANGED <<currentView, documentsCount, connectionString, upVars, formData, nextJob, queryVars, selectedFiles>>

\* data.progress || 0
ProgressOrZero(p) == IF p = NoProgress THEN 0 ELSE p

\* Mutant of PollUploadStatus: the App stores the count of the job that
\* completed instead of adding it.
PollUploadStatusSetsCount(j, r) ==
    LET o == PollOutcome(r) IN
    /\ tasks[j].kind = "upload"
    /\ tasks[j].statusInFlight > 0
    /\ tasks' = [tasks EXCEPT ![j] = PollTask(@, o)]
    /\ uploadProgress' =
          IF ~Mounted(j) \/ o \in {"exception", "httperror"} THEN uploadProgress
          ELSE IF o = "completed" THEN 100
          ELSE ProgressOrZero(r.body.progress)
    /\ isUploading' = IF ClearsBusy(o) /\ Mounted(j) THEN FALSE ELSE isUploading
    /\ upError' = IF o \in FailureOutcomes /\ Mounted(j)
                  THEN ErrText(PollErrorText("upload", r)) ELSE upError
    /\ documentsCount' = IF o = "completed" THEN tasks[j].totalFiles
                         ELSE documentsCount
    /\ UNCHANGED <<currentView, schemaData, connectionStatus, dbVars, formData, nextJob, queryVars, selectedFiles>>

\* pollUploadStatus resumed after its awaits.
PollUploadStatus(j, r) ==
    LET o == PollOutcome(r) IN
    /\ tasks[j].kind = "upload"
    /\ tasks[j].statusInFlight > 0
    /\ tasks' = [tasks EXCEPT ![j] = PollTask(@, o)]
    /\ uploadProgress' =
          IF ~Mounted(j) \/ o \in {"exception", "httperror"} THEN uploadProgress
          ELSE IF o = "completed" THEN 100
          ELSE ProgressOrZero(r.body.progress)
    /\ isUploading' = IF ClearsBusy(o) /\ Mounted(j) THEN FALSE ELSE isUploading
    /\ upError' = IF o \in FailureOutcomes /\ Mounted(j)
                  THEN ErrText(PollErrorText("upload", r)) ELSE upError
    /\ documentsCount' = IF o = "completed" THEN documentsCount + tasks[j].totalFiles
                         ELSE documentsCount
    /\ UNCHANGED <<currentView, schemaData, connectionStatus, dbVars, formData, nextJob, queryVars, selectedFiles>>

\* Mutant of TimerFire: the timer of an unmounted component is cleared without
\* issuing the request.
TimerFireCancelledOnUnmount(j) ==
    /\ tasks[j].timers > 0
    /\ tasks' = [tasks EXCEPT ![j].timers = @ - 1,
                              ![j].statusInFlight = IF Mounted(j) THEN @ + 1 ELSE @]
    /\ UNCHANGED <<appVars, dbVars, upVars, formData, nextJob, queryVars, selectedFiles>>

\* The setTimeout callback: () => poll...Status(jobId), which issues the fetch.
TimerFire(j) ==
    /\ tasks[j].timers > 0
    /\ tasks' = [tasks EXCEPT ![j].timers = @ - 1, ![j].statusInFlight = @ + 1]
    /\ UNCHANGED <<appVars, dbVars, upVars, formData, nextJob, queryVars, selectedFiles>>

\* ------------------------------------------------- DatabaseConnector
\* onChange of the connection-string input (disabled while connecting).
SetConnectionString(s) ==
    /\ currentView = "connect"
    /\ ~isConnecting
    /\ connectionString' = s
    /\ UNCHANGED <<appVars, isConnecting, dbError, upVars, formData, tasks, nextJob, queryVars, selectedFiles>>

\* Mutant of HandleConnect: the request carries connectionString.trim().
HandleConnectSendsTrimmed ==
    /\ currentView = "connect"
    /\ ~isConnecting
    /\ IF Trim(connectionString) = <<>>
       THEN /\ dbError' = "Please enter a connection string"
            /\ UNCHANGED <<isConnecting, tasks, nextJob>>
       ELSE /\ nextJob <= MaxJobs
            /\ isConnecting' = TRUE
            /\ dbError' = ""
            /\ tasks' = [tasks EXCEPT ![nextJob] =
                           [IdleTask EXCEPT !.kind = "db", !.submit = 1,
                                            !.connection_string = Trim(connectionString)]]
            /\ nextJob' = nextJob + 1
    /\ UNCHANGED <<appVars, connectionString, upVars, formData, queryVars, selectedFiles>>

\* handleConnect up to its first await; the button is disabled while
\* isConnecting.
HandleConnect ==
    /\ currentView = "connect"
    /\ ~isConnecting
    /\ IF Trim(connectionString) = <<>>
       THEN /\ dbError' = "Please enter a connection string"
            /\ UNCHANGED <<isConnecting, tasks, nextJob>>
       ELSE /\ nextJob <= MaxJobs
            /\ isConnecting' = TRUE
            /\ dbError' = ""
            /\ tasks' = [tasks EXCEPT ![nextJob] =
                           [IdleTask EXCEPT !.kind = "db", !.submit = 1,
                                            !.connection_string = connectionString]]
            /\ nextJob' = nextJob + 1
    /\ UNCHANGED <<appVars, connectionString, upVars, formData, queryVars, selectedFiles>>

\* The branch a settled connect / upload POST takes.
SubmitOutcome(r) ==
    IF r.net = "reject" \/ ~r.parse THEN "exception"
    ELSE IF r.ok THEN "accepted"
    ELSE "httperror"

\* Mutant of SubmitTask: a POST that failed is issued again.
SubmitTaskRetries(t, o) ==
    [t EXCEPT !.submit = IF o = "accepted" THEN @ - 1 ELSE @,
              !.statusInFlight = IF o = "accepted" THEN @ + 1 ELSE @,
              !.outcome = IF o = "accepted" THEN "processing" ELSE "refused"]

\* The task after its POST settled: on success poll...Status(job_id) is
\* called at once and issues the first status request.
SubmitTask(t, o) ==
    [t EXCEPT !.submit = @ - 1,
              !.statusInFlight = IF o = "accepted" THEN @ + 1 ELSE @,
              !.outcome = IF o = "accepted" THEN "processing" ELSE "refused"]

\* handleConnect resumed after its awaits.
ConnectResolve(j, r) ==
    LET o == SubmitOutcome(r) IN
    /\ tasks[j].kind = "db"
    /\ tasks[j].submit > 0
    /\ tasks' = [tasks EXCEPT ![j] = SubmitTask(@, o)]
    /\ IF o # "accepted" /\ Mounted(j)
       THEN /\ dbError' = IF o = "exception"
                          THEN "Network error: Could not connect to backend"
                          ELSE OrElse(r.detail, "Connection failed")
            /\ isConnecting' = FALSE
       ELSE UNCHANGED <<dbError, isConnecting>>
    /\ UNCHANGED <<appVars, connectionString, upVars, formData, nextJob, queryVars, selectedFiles>>

\* -------------------------------------------------- DocumentUploader
\* Mutant of HandleFiles: pollUploadStatus is given the length of the whole
\* selection, not of the files that passed validation.
HandleFilesCountsSelection(files) ==
    LET validFiles == ValidFiles(files)
        invalidFiles == InvalidFiles(files)
    IN
    /\ currentView = "connect"
    /\ files # <<>>
    /\ upError' = IF Len(invalidFiles) > 0 THEN InvalidFilesError(invalidFiles) ELSE NoError
    /\ IF Len(validFiles) > 0
       THEN /\ nextJob <= MaxJobs
            /\ isUploading' = TRUE
            /\ uploadProgress' = 0
            /\ formData' = validFiles
            /\ tasks' = [tasks EXCEPT ![nextJob] =
                           [IdleTask EXCEPT !.kind = "upload", !.submit = 1,
                                            !.files = validFiles,
                                            !.totalFiles = Len(files)]]
            /\ nextJob' = nextJob + 1
       ELSE UNCHANGED <<isUploading, uploadProgress, formData, tasks, nextJob>>
    /\ UNCHANGED <<appVars, dbVars, queryVars, selectedFiles>>

\* handleFiles, with the uploadFiles it awaits up to the first await of that.
\* Reached from the file input and from a drop on the drop zone.
HandleFiles(files) ==
    LET validFiles == ValidFiles(files)
        invalidFiles == InvalidFiles(files)
    IN
    /\ currentView = "connect"
    /\ files # <<>>
    /\ upError' = IF Len(invalidFiles) > 0 THEN InvalidFilesError(invalidFiles) ELSE NoError
    /\ IF Len(validFiles) > 0
       THEN /\ nextJob <= MaxJobs
            /\ isUploading' = TRUE
            /\ uploadProgress' = 0
            /\ formData' = validFiles
            /\ tasks' = [tasks EXCEPT ![nextJob] =
                           [IdleTask EXCEPT !.kind = "upload", !.submit = 1,
                                            !.files = validFiles,
                                            !.totalFiles = Len(validFiles)]]
            /\ nextJob' = nextJob + 1
       ELSE UNCHANGED <<isUploading, uploadProgress, formData, tasks, nextJob>>
    /\ UNCHANGED <<appVars, dbVars, queryVars, selectedFiles>>

\* uploadFiles resumed after its awaits.
UploadResolve(j, r) ==
    LET o == SubmitOutcome(r) IN
    /\ tasks[j].kind = "upload"
    /\ tasks[j].submit > 0
    /\ tasks' = [tasks EXCEPT ![j] = SubmitTask(@, o)]
    /\ IF o # "accepted" /\ Mounted(j)
       THEN /\ upError' = IF o = "exception"
                          THEN ErrText("Network error: Could not upload files")
                          ELSE ErrText(OrElse(r.detail, "Upload failed"))
            /\ isUploading' = FALSE
       ELSE UNCHANGED <<upError, isUploading>>
    /\ UNCHANGED <<appVars, dbVars, uploadProgress, formData, nextJob, queryVars, selectedFiles>>

clearError ==
    /\ currentView = "connect"
    /\ upError # NoError
    /\ upError' = NoError
    /\ UNCHANGED <<appVars, dbVars, isUploading, uploadProgress, formData, tasks, nextJob, queryVars, selectedFiles>>

\* ------------------------------------------------------------- App
\* An async function of task j is awaiting a fetch or a timer.
Pending(j) == tasks[j].submit + tasks[j].statusInFlight + tasks[j].timers > 0

\* The "Query Data" nav button: the connect view, and with it both
\* components and their state, is unmounted; what they left pending goes on.
SwitchToQuery ==
    /\ currentView = "connect"
    /\ connectionStatus = "connected" \/ documentsCount # 0
    /\ currentView' = "query"
    /\ connectionString' = <<>>
    /\ isConnecting' = FALSE
    /\ dbError' = ""
    /\ isUploading' = FALSE
    /\ uploadProgress' = 0
    /\ upError' = NoError
    /\ tasks' = [j \in Jobs |-> IF Pending(j) THEN [tasks[j] EXCEPT !.orphan = TRUE]
                                ELSE tasks[j]]
    /\ UNCHANGED <<schemaData, connectionStatus, documentsCount, formData, nextJob, queryVars, selectedFiles>>

\* The "Connect Data" nav button: fresh components are mounted.
SwitchToConnect ==
    /\ currentView = "query"
    /\ currentView' = "connect"
    /\ UNCHANGED <<schemaData, connectionStatus, documentsCount, dbVars, upVars,
                   formData, tasks, nextJob, queryVars, selectedFiles>>

\* ------------------------------------------------------ query side
QueryChars == {" ", "q"}
QueryStrings == SeqsUpTo(QueryChars, MaxQueryLen)

\* queryResults is null until the first query settles.
NoResult == [query_type |-> "null", results |-> <<>>, error |-> ""]

\* The results the client synthesizes in handleQuerySubmit.
ErrorResult(msg) == [query_type |-> "error", results |-> <<>>, error |-> msg]

\* Payloads the service answers a query with; query_type "" is an absent
\* field.  The service never reports query_type 'error' itself.
QueryPayloads ==
    {[query_type |-> "sql", results |-> <<"row1", "row2">>, error |-> ""],
     [query_type |-> "", results |-> <<"row1">>, error |-> ""]}

EmptyPayload == [query_type |-> "", results |-> <<>>, error |-> ""]

\* What the POST of /api/query can settle with.
QueryResponses ==
    {[net |-> "reject", ok |-> FALSE, parse |-> FALSE, body |-> EmptyPayload, detail |-> ""]}
    \cup [net : {"http"}, ok : {TRUE}, parse : {TRUE}, body : QueryPayloads, detail : {""}]
    \cup [net : {"http"}, ok : {TRUE}, parse : {FALSE}, body : {EmptyPayload}, detail : {""}]
    \cup [net : {"http"}, ok : {FALSE}, parse : {FALSE}, body : {EmptyPayload}, detail : {""}]
    \cup [net : {"http"}, ok : {FALSE}, parse : {TRUE}, body : {EmptyPayload}, detail : {"", "d1"}]

\* No query request has settled yet.
NoResponse == [net |-> "none", ok |-> FALSE, parse |-> FALSE, body |-> EmptyPayload,
               detail |-> ""]

\* Mutant of QueryOutcome: the body is read without the response.ok test.
QueryOutcomeIgnoresOk(r) ==
    IF r.net = "reject" \/ ~r.parse THEN ErrorResult("Network error occurred")
    ELSE r.body

\* Mutant of QueryOutcome: the catch block does not store a result.
QueryOutcomeCatchStoresNothing(r) ==
    IF r.net = "reject" THEN NoResult
    ELSE IF r.ok
         THEN (IF r.parse THEN r.body ELSE NoResult)
         ELSE ErrorResult("Query processing failed")

\* Mutant of QueryOutcome: the response.ok test is negated.
QueryOutcomeNegatedOk(r) ==
    IF r.net = "reject" THEN ErrorResult("Network error occurred")
    ELSE IF ~r.ok
         THEN (IF r.parse THEN r.body ELSE ErrorResult("Network error occurred"))
         ELSE ErrorResult("Query processing failed")

\* The value handleQuerySubmit passes to setQueryResults.
QueryOutcome(r) ==
    IF r.net = "reject" THEN ErrorResult("Network error occurred")
    ELSE IF r.ok
         THEN (IF r.parse THEN r.body ELSE ErrorResult("Network error occurred"))
         ELSE ErrorResult("Query processing failed")

\* Mutant of CanSubmit: the isLoading test is missing.
CanSubmitIgnoresLoading(q, loading) == Trim(q) # <<>>

\* The guard of handleSubmit: query.trim() && !isLoading.
CanSubmit(q, loading) == Trim(q) # <<>> /\ ~loading

jobFrame == <<jobVars, selectedFiles, rendered>>

\* handleSubmit of the query form, with the handleQuerySubmit and
\* fetchQueryHistory it calls, each up to its first await.
handleSubmit ==
    /\ currentView = "query"
    /\ IF CanSubmit(query, isLoading)
       THEN /\ historyReqs < MaxHistoryReqs
            /\ isLoading' = TRUE
            /\ queryInFlight' = queryInFlight + 1
            /\ queryPromise' = "pending"
            /\ showSuggestions' = FALSE
            /\ historyReqs' = historyReqs + 1
       ELSE UNCHANGED <<isLoading, queryInFlight, queryPromise, showSuggestions, historyReqs>>
    /\ UNCHANGED <<queryResults, queryResponse, query, suggestions, suggestionReqs,
                   queryHistory, jobFrame>>

\* handleQuerySubmit resumed after its awaits: try, catch and finally.
QueryResolve(r) ==
    /\ queryInFlight > 0
    /\ queryInFlight' = queryInFlight - 1
    /\ queryResults' = QueryOutcome(r)
    /\ isLoading' = FALSE
    /\ queryPromise' = "fulfilled"
    /\ queryResponse' = r
    /\ UNCHANGED <<query, suggestions, showSuggestions, suggestionReqs, queryHistory,
                   historyReqs, jobFrame>>

\* fetchQueryHistory resumed after its awaits.
HistoryResponses ==
    {[net |-> "reject", ok |-> FALSE, parse |-> FALSE, data |-> <<>>]}
    \cup [net : {"http"}, ok : {TRUE}, parse : {TRUE}, data : {<<>>, <<"h1">>}]
    \cup [net : {"http"}, ok : {TRUE}, parse : {FALSE}, data : {<<>>}]
    \cup [net : {"http"}, ok : {FALSE}, parse : {TRUE}, data : {<<>>}]

HistoryResolve(r) ==
    /\ historyReqs > 0
    /\ historyReqs' = historyReqs - 1
    /\ queryHistory' = IF r.net = "http" /\ r.ok /\ r.parse THEN r.data ELSE queryHistory
    /\ UNCHANGED <<queryResults, isLoading, queryInFlight, queryPromise, queryResponse, query,
                   suggestions, showSuggestions, suggestionReqs, jobFrame>>

\* The threshold of fetchSuggestions: partialQuery.length < 2.
MinPartialLength == 2

\* What the service suggests for a partial query.
SuggestionsFor(partial) == <<partial>>

SuggestionResponses ==
    {[net |-> "reject", ok |-> FALSE, parse |-> FALSE, hasList |-> FALSE]}
    \cup [net : {"http"}, ok : {TRUE}, parse : {TRUE}, hasList : BOOLEAN]
    \cup [net : {"http"}, ok : {TRUE}, parse : {FALSE}, hasList : {FALSE}]
    \cup [net : {"http"}, ok : {FALSE}, parse : {TRUE}, hasList : {FALSE}]

\* Mutant of handleQueryChange: fetchSuggestions tests the length of the
\* trimmed text.
handleQueryChangeTrimmedLength(value) ==
    /\ currentView = "query"
    /\ ~isLoading
    /\ query' = value
    /\ IF Trim(value) # <<>>
       THEN /\ showSuggestions' = TRUE
            /\ IF Len(Trim(value)) < MinPartialLength
               THEN /\ suggestions' = <<>>
                    /\ UNCHANGED suggestionReqs
               ELSE /\ Len(suggestionReqs) < MaxSuggestionReqs
                    /\ suggestionReqs' = Append(suggestionReqs, value)
                    /\ UNCHANGED suggestions
       ELSE /\ showSuggestions' = FALSE
            /\ UNCHANGED <<suggestions, suggestionReqs>>
    /\ UNCHANGED <<queryResults, isLoading, queryInFlight, queryPromise, queryResponse, queryHistory,
                   historyReqs, jobFrame>>

\* handleQueryChange (the input is disabled while isLoading), with the
\* fetchSuggestions it calls up to its first await.
handleQueryChange(value) ==
    /\ currentView = "query"
    /\ ~isLoading
    /\ query' = value
    /\ IF Trim(value) # <<>>
       THEN /\ showSuggestions' = TRUE
            /\ IF Len(value) < MinPartialLength
               THEN /\ suggestions' = <<>>
                    /\ UNCHANGED suggestionReqs
               ELSE /\ Len(suggestionReqs) < MaxSuggestionReqs
                    /\ suggestionReqs' = Append(suggestionReqs, value)
                    /\ UNCHANGED suggestions
       ELSE /\ showSuggestions' = FALSE
            /\ UNCHANGED <<suggestions, suggestionReqs>>
    /\ UNCHANGED <<queryResults, isLoading, queryInFlight, queryPromise, queryResponse, queryHistory,
                   historyReqs, jobFrame>>

RemoveAt(seq, i) == SubSeq(seq, 1, i - 1) \o SubSeq(seq, i + 1, Len(seq))

\* fetchSuggestions resumed after its awaits, for the i-th request in flight.
SuggestionResolve(i, r) ==
    /\ i \in 1..Len(suggestionReqs)
    /\ suggestionReqs' = RemoveAt(suggestionReqs, i)
    /\ suggestions' =
          IF r.net = "reject" \/ (r.ok /\ ~r.parse) THEN <<>>
          ELSE IF r.ok
               THEN (IF r.hasList THEN SuggestionsFor(suggestionReqs[i]) ELSE <<>>)
               ELSE suggestions
    /\ UNCHANGED <<queryResults, isLoading, queryInFlight, queryPromise, queryResponse, query,
                   showSuggestions, queryHistory, historyReqs, jobFrame>>

\* selectQuery, from a suggestion of the dropdown.
selectQuery(i) ==
    /\ currentView = "query"
    /\ showSuggestions
    /\ i \in 1..Len(suggestions)
    /\ query' = suggestions[i]
    /\ showSuggestions' = FALSE
    /\ UNCHANGED <<queryResults, isLoading, queryInFlight, queryPromise, queryResponse, suggestions,
                   suggestionReqs, queryHistory, historyReqs, jobFrame>>

\* clearQuery (the button is shown for a non-empty query, disabled while loading).
clearQuery ==
    /\ currentView = "query"
    /\ query # <<>>
    /\ ~isLoading
    /\ query' = <<>>
    /\ showSuggestions' = FALSE
    /\ UNCHANGED <<queryResults, isLoading, queryInFlight, queryPromise, queryResponse, suggestions,
                   suggestionReqs, queryHistory, historyReqs, jobFrame>>

\* ------------------------------------------------------ ResultsView
\* A JSON value as the component reads it: its JavaScript type and its text
\* (a sequence of characters); an array lists the texts of its items.
Str(text) == [type |-> "string", text |-> text, items |-> <<>>]
Num(text) == [type |-> "number", text |-> text, items |-> <<>>]
Arr(items) == [type |-> "array", text |-> <<>>, items |-> items]
Undefined == [type |-> "undefined", text |-> <<>>, items |-> <<>>]

\* A JSON object: its properties in insertion order.
Prop(key, value) == [key |-> key, value |-> value]

HasKey(obj, key) == \E i \in 1..Len(obj) : obj[i].key = key

\* obj[key]: undefined when the object has no such property.
Get(obj, key) ==
    IF HasKey(obj, key)
    THEN obj[CHOOSE i \in 1..Len(obj) : obj[i].key = key].value
    ELSE Undefined

\* Object.keys(obj)
ObjectKeys(obj) == [i \in 1..Len(obj) |-> obj[i].key]

\* JavaScript truthiness of a value.
Truthy(value) ==
    CASE value.type = "string" -> value.text # <<>>
      [] value.type = "number" -> value.text # <<"0">>
      [] value.type = "array" -> TRUE
      [] OTHER -> FALSE

\* String.prototype.includes
Includes(str, sub) ==
    \E i \in 1..(Len(str) - Len(sub) + 1) : SubSeq(str, i, i + Len(sub) - 1) = sub

\* Array.prototype.join on strings.
RECURSIVE Join(_, _)
Join(strs, sep) ==
    IF strs = <<>> THEN <<>>
    ELSE IF Len(strs) = 1 THEN strs[1]
    ELSE strs[1] \o sep \o Join(Tail(strs), sep)

\* The property names and texts the payloads are built from.
SourceKey == <<"s", "o", "u", "r", "c", "e">>
IdKey == <<"i", "d">>
MessageKey == <<"m", "e", "s", "s", "a", "g", "e">>
SuggestionsKey == <<"s", "u", "g", "g", "e", "s", "t", "i", "o", "n", "s">>
SalaryKey == <<"s", "a", "l", "a", "r", "y">>
HireDateKey == <<"h", "i", "r", "e", "_", "d", "a", "t", "e">>
Database == Str(<<"d", "a", "t", "a", "b", "a", "s", "e">>)
Document == Str(<<"d", "o", "c", "u", "m", "e", "n", "t">>)

\* An item of results, as far as the dispatch and the hybrid split read it:
\* its source tag (the property may be missing) and an id telling items apart.
ResultItems ==
    {src \o <<Prop(IdKey, Num(<<n>>))>> :
        src \in {<<>>, <<Prop(SourceKey, Database)>>, <<Prop(SourceKey, Document)>>},
        n \in {"1", "2"}}

\* The advisory record of a help result: a message, with or without a list
\* of suggestions.
AdvisoryRecords ==
    {<<Prop(MessageKey, Str(m))>> \o sg :
        m \in {<<"m", "1">>, <<"m", "2">>},
        sg \in {<<>>, <<Prop(SuggestionsKey, Arr(<< <<"s", "1">> >>))>>}}

\* Rows of a tabular result: no, one or both of two columns, in either
\* order; the text column may hold a comma or a line break.
SalaryValues == {Num(<<"5">>)}
HireDateValues == {Str(<<"x">>), Str(<<"a", ",", "b">>), Str(<<"a", "\n", "b">>)}
Rows ==
    {<<>>}
    \cup {<<Prop(SalaryKey, v)>> : v \in SalaryValues}
    \cup {<<Prop(HireDateKey, w)>> : w \in HireDateValues}
    \cup {<<Prop(SalaryKey, v), Prop(HireDateKey, w)>> : v \in SalaryValues, w \in HireDateValues}
    \cup {<<Prop(HireDateKey, w), Prop(SalaryKey, v)>> : v \in SalaryValues, w \in HireDateValues}

\* The results prop: payloads of every query_type ("" is an absent field,
\* 'other' a type the component has no view for) over tagged items, help
\* payloads over advisory records, tabular payloads over rows, and the error
\* results the App synthesizes.
ViewPayloads ==
    [query_type : {"help", "hybrid", "document", "sql", "", "other"},
     results : SeqsUpTo(ResultItems, MaxResults), error : {""}]
    \cup [query_type : {"help"}, results : SeqsUpTo(AdvisoryRecords, MaxResults), error : {""}]
    \cup [query_type : {"sql", ""}, results : SeqsUpTo(Rows, MaxResults), error : {""}]
    \cup {ErrorResult("Query processing failed"), ErrorResult("Network error occurred")}

\* Mutant of renderHybridResults: the database filter lacks the !item.source test.
renderHybridResultsSourceOnly(data) ==
    [database |-> SelectSeq(data, LAMBDA item : Get(item, SourceKey) = Database),
     document |-> SelectSeq(data, LAMBDA item : Get(item, SourceKey) = Document)]

\* renderHybridResults: the two filters over data.
renderHybridResults(data) ==
    [database |-> SelectSeq(data, LAMBDA item : \/ Get(item, SourceKey) = Database
                                                \/ ~Truthy(Get(item, SourceKey))),
     document |-> SelectSeq(data, LAMBDA item : Get(item, SourceKey) = Document)]

\* Mutant of renderHelpMessage: the advisory record is the last element of data.
renderHelpMessageLast(data) ==
    LET sg == Get(data[Len(data)], SuggestionsKey) IN
    [message |-> Get(data[Len(data)], MessageKey),
     list |-> Truthy(sg),
     suggestions |-> IF Truthy(sg) THEN sg.items ELSE <<>>]

\* renderHelpMessage: the heading shows data[0].message, and the list, when
\* data[0].suggestions is truthy, one entry per suggestion.
renderHelpMessage(data) ==
    LET sg == Get(data[1], SuggestionsKey) IN
    [message |-> Get(data[1], MessageKey),
     list |-> Truthy(sg),
     suggestions |-> IF Truthy(sg) THEN sg.items ELSE <<>>]

NoAdvisory == [message |-> Undefined, list |-> FALSE, suggestions |-> <<>>]

\* formatCellValue: the placeholder for null / undefined, currency for a
\* number under a salary header, a locale date for a truthy value under a
\* date header, a grouped number, and any other value as it is.
formatCellValue(value, header) ==
    IF value.type \in {"null", "undefined"} THEN [fmt |-> "placeholder", value |-> Undefined]
    ELSE IF Includes(ToLowerCase(header), <<"s", "a", "l", "a", "r", "y">>) /\ value.type = "number"
         THEN [fmt |-> "currency", value |-> value]
    ELSE IF Includes(ToLowerCase(header), <<"d", "a", "t", "e">>) /\ Truthy(value)
         THEN [fmt |-> "date", value |-> value]
    ELSE IF value.type = "number" THEN [fmt |-> "number", value |-> value]
    ELSE [fmt |-> "raw", value |-> value]

NoTable == [shown |-> FALSE, headers |-> <<>>, rows |-> <<>>]

\* Mutant of renderTableData: the cells of a row follow the keys of that row.
renderTableDataOwnKeys(data) ==
    IF data = <<>> THEN NoTable
    ELSE [shown |-> TRUE,
          headers |-> ObjectKeys(data[1]),
          rows |-> [i \in 1..Len(data) |->
                      [c \in 1..Len(data[i]) |->
                          formatCellValue(data[i][c].value, data[i][c].key)]]]

\* renderTableData: the header row from Object.keys(data[0]), and for every
\* row one cell per header.
renderTableData(data) ==
    IF data = <<>> THEN NoTable
    ELSE LET headers == ObjectKeys(data[1]) IN
         [shown |-> TRUE,
          headers |-> headers,
          rows |-> [i \in 1..Len(data) |->
                      [c \in 1..Len(headers) |->
                          formatCellValue(Get(data[i], headers[c]), headers[c])]]]

\* The string an element of an array becomes in Array.prototype.join: empty
\* for null and undefined, the items joined by ',' for an array.
ToText(value) ==
    CASE value.type \in {"null", "undefined"} -> <<>>
      [] value.type = "array" -> Join(value.items, <<",">>)
      [] OTHER -> value.text

\* One field of a CSV line: a string with a comma is wrapped in double quotes.
CsvField(value) ==
    IF value.type = "string" /\ Includes(value.text, <<",">>)
    THEN <<"\"">> \o value.text \o <<"\"">>
    ELSE ToText(value)

NoDownload == [done |-> FALSE, content |-> <<>>]

\* Mutant of exportToCSV: every line lists the values of its own row's keys.
exportToCSVOwnKeys(data) ==
    IF data = <<>> THEN NoDownload
    ELSE LET headers == ObjectKeys(data[1])
             line(row) == Join([c \in 1..Len(row) |-> CsvField(row[c].value)], <<",">>)
         IN  [done |-> TRUE,
              content |-> Join(<<Join(headers, <<",">>)>>
                               \o [i \in 1..Len(data) |-> line(data[i])], <<"\n">>)]

\* exportToCSV: the header line and one line per row, joined by '\n'.
exportToCSV(data) ==
    IF data = <<>> THEN NoDownload
    ELSE LET headers == ObjectKeys(data[1])
             line(row) == Join([c \in 1..Len(headers) |-> CsvField(Get(row, headers[c]))],
                               <<",">>)
         IN  [done |-> TRUE,
              content |-> Join(<<Join(headers, <<",">>)>>
                               \o [i \in 1..Len(data) |-> line(data[i])], <<"\n">>)]

\* Mutant of SelectedModes: the table condition lacks the !results.query_type test.
SelectedModesAnyResults(res) ==
    (IF res.query_type = "help" THEN {"advisory"} ELSE {})
    \cup (IF res.query_type = "hybrid" THEN {"hybrid"} ELSE {})
    \cup (IF res.query_type = "document" THEN {"document"} ELSE {})
    \cup (IF res.query_type = "sql" \/ res.results # <<>> THEN {"tabular"} ELSE {})

\* The four guarded calls of the results-content block: the render functions
\* that are invoked.  results.results is an array, which is truthy also
\* when it is empty.
SelectedModes(res) ==
    (IF res.query_type = "help" THEN {"advisory"} ELSE {})
    \cup (IF res.query_type = "hybrid" THEN {"hybrid"} ELSE {})
    \cup (IF res.query_type = "document" THEN {"document"} ELSE {})
    \cup (IF res.query_type = "sql" \/ res.query_type = "" THEN {"tabular"} ELSE {})

NoBuckets == [database |-> <<>>, document |-> <<>>]

NotRendered == [view |-> "none", modes |-> {}, buckets |-> NoBuckets, threw |-> FALSE,
                advisory |-> NoAdvisory, table |-> NoTable, download |-> NoDownload]

\* The component function: the loading, empty and error views return early;
\* renderHelpMessage reads data[0].message and throws on an empty array.
ResultsView(res, loading) ==
    IF loading THEN [NotRendered EXCEPT !.view = "loading"]
    ELSE IF res = NoResult THEN [NotRendered EXCEPT !.view = "empty"]
    ELSE IF res.error # "" THEN [NotRendered EXCEPT !.view = "error"]
    ELSE [view |-> "results",
          modes |-> SelectedModes(res),
          buckets |-> IF "hybrid" \in SelectedModes(res)
                      THEN renderHybridResults(res.results) ELSE NoBuckets,
          threw |-> "advisory" \in SelectedModes(res) /\ res.results = <<>>,
          advisory |-> IF "advisory" \in SelectedModes(res) /\ res.results # <<>>
                       THEN renderHelpMessage(res.results) ELSE NoAdvisory,
          table |-> IF "tabular" \in SelectedModes(res)
                    THEN renderTableData(res.results) ELSE NoTable,
          download |-> NoDownload]

\* A render of ResultsView with the current props; what was downloaded stays.
Render ==
    /\ currentView = "query"
    /\ rendered' = [ResultsView(queryResults, isLoading) EXCEPT !.download = rendered.download]
    /\ UNCHANGED <<jobVars, selectedFiles, queryResults, isLoading, queryInFlight,
                   queryPromise, queryResponse, query, suggestions, showSuggestions,
                   suggestionReqs, queryHistory, historyReqs>>

\* exportData from the Export button, which is shown for a result other than
\* help that has rows; the format select is left at its initial 'csv'.
exportData ==
    /\ currentView = "query"
    /\ rendered.view = "results"
    /\ queryResults.query_type # "help"
    /\ queryResults.results # <<>>
    /\ rendered' = [rendered EXCEPT !.download = exportToCSV(queryResults.results)]
    /\ UNCHANGED <<jobVars, selectedFiles, queryResults, isLoading, queryInFlight,
                   queryPromise, queryResponse, query, suggestions, showSuggestions,
                   suggestionReqs, queryHistory, historyReqs>>

\* ------------------------------------------------------- specifications
InitApp ==
    /\ rendered = NotRendered
    /\ queryResults = NoResult
    /\ isLoading = FALSE
    /\ queryInFlight = 0
    /\ queryPromise = "none"
    /\ queryResponse = NoResponse
    /\ query = <<>>
    /\ suggestions = <<>>
    /\ showSuggestions = FALSE
    /\ suggestionReqs = <<>>
    /\ queryHistory = <<>>

\* The App as first rendered: the connect view, nothing connected.
InitJobs ==
    /\ InitApp
    /\ selectedFiles = <<>>
    /\ historyReqs = 0
    /\ currentView = "connect"
    /\ schemaData = "null"
    /\ connectionStatus = "disconnected"
    /\ documentsCount = 0
    /\ connectionString = <<>>
    /\ isConnecting = FALSE
    /\ dbError = ""
    /\ isUploading = FALSE
    /\ uploadProgress = 0
    /\ upError = NoError
    /\ formData = <<>>
    /\ tasks = [j \in Jobs |-> IdleTask]
    /\ nextJob = 1

\* The query view as first shown, after a database job completed: the
\* QueryPanel has just mounted and its effect has requested the history.
InitQuery ==
    /\ InitApp
    /\ selectedFiles = <<>>
    /\ historyReqs = 1
    /\ currentView = "query"
    /\ schemaData = "S1"
    /\ connectionStatus = "connected"
    /\ documentsCount = 0
    /\ connectionString = <<>>
    /\ isConnecting = FALSE
    /\ dbError = ""
    /\ isUploading = FALSE
    /\ uploadProgress = 0
    /\ upError = NoError
    /\ formData = <<>>
    /\ tasks = [j \in Jobs |->
                  IF j = 1 THEN [IdleTask EXCEPT !.kind = "db", !.outcome = "completed",
                                                 !.successCalls = 1]
                  ELSE IdleTask]
    /\ nextJob = 2

NextQuery ==
    \/ \E value \in QueryStrings : handleQueryChange(value)
    \/ handleSubmit
    \/ \E r \in QueryResponses : QueryResolve(r)
    \/ \E r \in HistoryResponses : HistoryResolve(r)
    \/ \E i \in 1..MaxSuggestionReqs, r \in SuggestionResponses : SuggestionResolve(i, r)
    \/ \E i \in 1..MaxSuggestionReqs : selectQuery(i)
    \/ clearQuery

SpecQuery == InitQuery /\ [][NextQuery]_vars

\* The uploader handling one selection or drop of files of every shape,
\* possibly more than once.
InitFiles ==
    /\ InitApp
    /\ selectedFiles \in FileLists
    /\ historyReqs = 0
    /\ currentView = "connect"
    /\ schemaData = "null"
    /\ connectionStatus = "disconnected"
    /\ documentsCount = 0
    /\ connectionString = <<>>
    /\ isConnecting = FALSE
    /\ dbError = ""
    /\ isUploading = FALSE
    /\ uploadProgress = 0
    /\ upError = NoError
    /\ formData = <<>>
    /\ tasks = [j \in Jobs |-> IdleTask]
    /\ nextJob = 1

NextFiles ==
    \/ HandleFiles(selectedFiles)
    \/ clearError

SpecFiles == InitFiles /\ [][NextFiles]_vars

\* The query view showing a result of every shape, while loading and not.
InitView ==
    /\ rendered = NotRendered
    /\ queryResults \in ViewPayloads \cup {NoResult}
    /\ isLoading \in BOOLEAN
    /\ queryInFlight = IF isLoading THEN 1 ELSE 0
    /\ queryPromise = IF isLoading THEN "pending" ELSE "none"
    /\ queryResponse = NoResponse
    /\ query = <<>>
    /\ suggestions = <<>>
    /\ showSuggestions = FALSE
    /\ suggestionReqs = <<>>
    /\ queryHistory = <<>>
    /\ selectedFiles = <<>>
    /\ historyReqs = 0
    /\ currentView = "query"
    /\ schemaData = "S1"
    /\ connectionStatus = "connected"
    /\ documentsCount = 0
    /\ connectionString = <<>>
    /\ isConnecting = FALSE
    /\ dbError = ""
    /\ isUploading = FALSE
    /\ uploadProgress = 0
    /\ upError = NoError
    /\ formData = <<>>
    /\ tasks = [j \in Jobs |->
                  IF j = 1 THEN [IdleTask EXCEPT !.kind = "db", !.outcome = "completed",
                                                 !.successCalls = 1]
                  ELSE IdleTask]
    /\ nextJob = 2

NextView ==
    \/ Render
    \/ exportData

SpecView == InitView /\ [][NextView]_vars

\* Fairness of the query request: a fetch in flight eventually settles.
FairSpecQuery ==
    /\ InitQuery
    /\ [][NextQuery]_vars
    /\ WF_vars(\E r \in QueryResponses : QueryResolve(r))

\* The four operations that contact the service, in one session: a query is
\* submitted from the query view, then the user returns to the connect view
\* and starts an ingestion job.
NextService ==
    \/ handleQueryChange(<<"q">>)
    \/ handleSubmit
    \/ \E r \in QueryResponses : QueryResolve(r)
    \/ \E r \in HistoryResponses : HistoryResolve(r)
    \/ SwitchToConnect
    \/ \E str \in ConnStrings : SetConnectionString(str)
    \/ HandleConnect
    \/ \E j \in Jobs, r \in SubmitResponses : ConnectResolve(j, r)
    \/ \E j \in Jobs, r \in StatusResponses : PollConnectionStatus(j, r)
    \/ \E files \in JobFileLists : HandleFiles(files)
    \/ \E j \in Jobs, r \in SubmitResponses : UploadResolve(j, r)
    \/ \E j \in Jobs, r \in StatusResponses : PollUploadStatus(j, r)
    \/ \E j \in Jobs : TimerFire(j)

SpecService == InitQuery /\ [][NextService]_vars

\* The query input being typed into while every suggestion request is
\* answered with a list, in whatever order the responses arrive.
NextSuggestions ==
    \/ \E value \in QueryStrings : handleQueryChange(value)
    \/ \E i \in 1..MaxSuggestionReqs :
          SuggestionResolve(i, [net |-> "http", ok |-> TRUE, parse |-> TRUE, hasList |-> TRUE])

SpecSuggestions == InitQuery /\ [][NextSuggestions]_vars

NextJobs ==
    \/ \E s \in ConnStrings : SetConnectionString(s)
    \/ HandleConnect
    \/ \E j \in Jobs, r \in SubmitResponses : ConnectResolve(j, r)
    \/ \E j \in Jobs, r \in StatusResponses : PollConnectionStatus(j, r)
    \/ \E files \in JobFileLists : HandleFiles(files)
    \/ \E j \in Jobs, r \in SubmitResponses : UploadResolve(j, r)
    \/ \E j \in Jobs, r \in StatusResponses : PollUploadStatus(j, r)
    \/ \E j \in Jobs : TimerFire(j)
    \/ clearError
    \/ SwitchToQuery
    \/ SwitchToConnect

SpecJobs == InitJobs /\ [][NextJobs]_vars


\* Fairness of the poller: a scheduled timer fires, and the service eventually
\* gives a status request of a job a terminal answer (or the request fails).
TerminalResolve(j) ==
    \E r \in StatusResponses :
        /\ PollOutcome(r) # "processing"
        /\ PollConnectionStatus(j, r) \/ PollUploadStatus(j, r)

FairSpecJobs ==
    /\ InitJobs
    /\ [][NextJobs]_vars
    /\ \A j \in Jobs : WF_vars(TimerFire(j)) /\ SF_vars(TerminalResolve(j))

\* ---------------------------------------------------- poller claims
Terminal == {"completed", "failed", "error"}

\* The busy flag and the error text of the component that started job j.
Busy(j) == IF tasks[j].kind = "db" THEN isConnecting ELSE isUploading
BusyNext(j) == IF tasks[j].kind = "db" THEN isConnecting' ELSE isUploading'
ErrorOf(j) == IF tasks[j].kind = "db" THEN dbError ELSE upError.text
ErrorOfNext(j) == IF tasks[j].kind = "db" THEN dbError' ELSE upError'.text

\* A step in which a status request of job j settles with response r.
PollStep(j, r) == PollConnectionStatus(j, r) \/ PollUploadStatus(j, r)

Quiescent(j) ==
    /\ tasks[j].outcome \in Terminal
    /\ tasks[j].statusInFlight = 0
    /\ tasks[j].timers = 0

\* C1: every job reaches at most one terminal state and never leaves it: its
\* success callback is invoked at most once, its failure message is set at
\* most once, and never both.
C1_OneTerminalState ==
    /\ [](\A j \in Jobs :
            /\ tasks[j].successCalls <= 1
            /\ tasks[j].failureSets <= 1
            /\ tasks[j].successCalls + tasks[j].failureSets <= 1)
    /\ [][\A j \in Jobs :
            tasks[j].outcome \in Terminal =>
                /\ tasks'[j].outcome = tasks[j].outcome
                /\ tasks'[j].successCalls = tasks[j].successCalls
                /\ tasks'[j].failureSets = tasks[j].failureSets]_vars

\* C1 witness: one job has completed and another has failed, each after its
\* single callback.
C1_Witness ==
    \E j, k \in Jobs :
        /\ tasks[j].outcome = "completed" /\ tasks[j].successCalls = 1
        /\ tasks[k].outcome \in {"failed", "error"} /\ tasks[k].failureSets = 1

\* C2: at most one status request of a job is in flight; a further one is
\* issued only when none is in flight, the job is still processing and its
\* 1-second timer fires (the first one is issued when the submission is accepted).
C2_SequentialPolls ==
    /\ [](\A j \in Jobs : tasks[j].statusInFlight + tasks[j].timers <= 1)
    /\ [][\A j \in Jobs :
            tasks'[j].statusInFlight > tasks[j].statusInFlight =>
                /\ tasks[j].statusInFlight = 0
                /\ tasks'[j].statusInFlight = 1
                /\ \/ /\ tasks[j].outcome = "processing"
                      /\ tasks[j].timers = 1
                      /\ tasks'[j].timers = 0
                   \/ /\ tasks[j].outcome = "none"
                      /\ tasks[j].submit = 1]_vars

\* C2 witness: two jobs each wait for a status request, one of them for a
\* re-issued one.
C2_Witness ==
    \E j, k \in Jobs :
        /\ j # k
        /\ tasks[j].statusInFlight = 1 /\ tasks[j].outcome = "processing"
        /\ tasks[k].timers = 1

IsTransportError(r) == r.net = "reject" \/ ~r.ok

StatusCheckMessages ==
    {"Failed to check connection status", "Failed to check upload status",
     "Network error while checking status"}

\* C3: a status request that rejects or returns a non-2xx status ends the job:
\* the generic status-check message is set, the busy flag is cleared, no success
\* callback is invoked, and no status request is issued for the job again.
C3_TransportErrorTerminal ==
    /\ [][\A j \in Jobs, r \in StatusResponses :
            (IsTransportError(r) /\ PollStep(j, r)) =>
                /\ tasks'[j].outcome = "error"
                /\ tasks'[j].statusInFlight = 0 /\ tasks'[j].timers = 0
                /\ tasks'[j].successCalls = tasks[j].successCalls
                /\ UNCHANGED <<schemaData, connectionStatus, documentsCount>>
                /\ Mounted(j) => /\ ~BusyNext(j)
                                 /\ ErrorOfNext(j) \in StatusCheckMessages]_vars
    /\ [][\A j \in Jobs :
            tasks[j].outcome = "error" =>
                /\ tasks'[j].outcome = "error"
                /\ tasks'[j].statusInFlight = 0 /\ tasks'[j].timers = 0]_vars

\* C3 witness: a job of each kind has ended with a transport error.
C3_Witness ==
    \E j, k \in Jobs :
        /\ tasks[j].kind = "db" /\ tasks[j].outcome = "error"
        /\ tasks[k].kind = "upload" /\ tasks[k].outcome = "error"
        /\ dbError \in StatusCheckMessages /\ upError.text \in StatusCheckMessages

IsNonTerminal(r) ==
    r.net = "http" /\ r.ok /\ r.parse /\ r.body.status \notin {"completed", "failed"}

\* What a non-terminal status response does to its own job and to the App:
\* exactly one further status request is scheduled, no callback is invoked and
\* no error is set.
KeepsProcessing(j) ==
    /\ tasks'[j].outcome = "processing"
    /\ tasks'[j].statusInFlight = 0
    /\ tasks'[j].timers = tasks[j].timers + 1
    /\ tasks'[j].successCalls = tasks[j].successCalls
    /\ tasks'[j].failureSets = tasks[j].failureSets
    /\ UNCHANGED <<schemaData, connectionStatus, documentsCount, dbError, upError>>

\* C4: a successful status response with any status other than 'completed' or
\* 'failed' keeps the job processing: one further request is scheduled, no
\* callback is invoked, no error is set, and the busy flag of the component
\* that tracks the job is true afterwards.
C4_NonTerminalKeepsPolling ==
    [][\A j \in Jobs, r \in StatusResponses :
         (IsNonTerminal(r) /\ PollStep(j, r) /\ Mounted(j)) =>
             (KeepsProcessing(j) /\ BusyNext(j))]_vars

\* C4 without the busy flag being true: the response leaves the flag as it was.
NonTerminalFrame ==
    [][\A j \in Jobs, r \in StatusResponses :
         (IsNonTerminal(r) /\ PollStep(j, r)) =>
             (KeepsProcessing(j) /\ UNCHANGED <<isConnecting, isUploading>>)]_vars

\* C5: with fair timers and a service that eventually gives a terminal answer,
\* a job whose status is being requested is eventually no longer polled, with
\* the busy flag of the component that started it false.
C5_PollingStops ==
    \A j \in Jobs :
        (tasks[j].statusInFlight > 0) ~> (Quiescent(j) /\ (Mounted(j) => ~Busy(j)))

\* C5 witness: a job that was polled more than once has stopped, busy flag down.
C5_Witness ==
    \E j \in Jobs : Quiescent(j) /\ Mounted(j) /\ ~Busy(j) /\ tasks[j].kind = "upload"
                    /\ uploadProgress = 40


\* ----------------------------------------------------- query claims
\* C6: at most one query request is in flight; a submission with a blank
\* query, or made while isLoading, issues no request and leaves queryResults
\* and isLoading unchanged.
C6_OneQueryInFlight ==
    /\ [](queryInFlight <= 1)
    /\ [][(handleSubmit /\ (Trim(query) = <<>> \/ isLoading)) =>
              UNCHANGED <<queryInFlight, queryResults, isLoading>>]_vars

\* C6 witness: a non-blank query is in the input while an earlier submission
\* is still loading, after a previous query has already produced a result.
C6_Witness ==
    /\ isLoading /\ queryInFlight = 1
    /\ Trim(query) # <<>>
    /\ queryResults # NoResult

IsSynthesizedError(res) ==
    /\ res.query_type = "error"
    /\ res.results = <<>>
    /\ res.error # ""

\* C7: a query request that rejects or returns a non-success status stores a
\* synthesized result: query_type 'error', no results, a non-empty message
\* ('Network error occurred' on rejection); handleQuerySubmit still fulfils.
C7_FailureSynthesizesError ==
    [][\A r \in QueryResponses :
         ((r.net = "reject" \/ ~r.ok) /\ QueryResolve(r)) =>
             /\ IsSynthesizedError(queryResults')
             /\ r.net = "reject" => queryResults'.error = "Network error occurred"
             /\ queryPromise' = "fulfilled"]_vars

\* C7 witness: a non-success response has been turned into an error result.
C7_Witness ==
    /\ queryResponse.net = "http" /\ ~queryResponse.ok
    /\ queryResults = ErrorResult("Query processing failed")
    /\ queryPromise = "fulfilled"

\* C8: every accepted submission resolves: isLoading returns to false, and the
\* result stored then is the payload of the response or a synthesized error.
C8_SubmissionResolves ==
    /\ isLoading ~> ~isLoading
    /\ [][\A r \in QueryResponses :
            QueryResolve(r) =>
                /\ ~isLoading'
                /\ queryPromise' = "fulfilled"
                /\ \/ r.net = "http" /\ r.ok /\ r.parse /\ queryResults' = r.body
                   \/ IsSynthesizedError(queryResults')]_vars

\* C8 witness: a submission whose response body could not be parsed has resolved.
C8_Witness ==
    /\ queryResponse.net = "http" /\ queryResponse.ok /\ ~queryResponse.parse
    /\ ~isLoading /\ queryPromise = "fulfilled"
    /\ IsSynthesizedError(queryResults)

\* C9 as claimed: the stored result is error-typed only if the request that
\* produced it rejected or returned a non-success status.
C9_ErrorOnlyOnFailure ==
    queryResults.query_type = "error" =>
        (queryResponse.net = "reject" \/ (queryResponse.net = "http" /\ ~queryResponse.ok))

\* C9 amended: the stored result is error-typed only if the request that
\* produced it rejected, returned a non-success status, or returned a success
\* status with a body that could not be parsed; a success response with a
\* parsable body leaves its payload, which is not error-typed.
C9_ErrorOnlyOnFailureOrBadBody ==
    /\ queryResults.query_type = "error" =>
          \/ queryResponse.net = "reject"
          \/ queryResponse.net = "http" /\ ~queryResponse.ok
          \/ queryResponse.net = "http" /\ queryResponse.ok /\ ~queryResponse.parse
    /\ (queryResponse.net = "http" /\ queryResponse.ok /\ queryResponse.parse) =>
          /\ queryResults = queryResponse.body
          /\ queryResults.query_type # "error"

\* C9 witness: a success response with an unparsable body left an error result.
C9_Witness ==
    /\ queryResults.query_type = "error"
    /\ queryResponse.net = "http" /\ queryResponse.ok /\ ~queryResponse.parse


\* ---------------------------------------------------- upload claims
\* The extension of a file name as the claims define it: the text after the
\* last '.', compared case-insensitively; a name without a '.' has none.
HasDot(name) == \E i \in 1..Len(name) : name[i] = "."

AfterLastDot(name) ==
    LET d == CHOOSE i \in 1..Len(name) :
                 name[i] = "." /\ \A k \in (i + 1)..Len(name) : name[k] # "."
    IN  SubSeq(name, d + 1, Len(name))

AllowedExtensions ==
    {<<"p", "d", "f">>, <<"d", "o", "c", "x">>, <<"t", "x", "t">>, <<"c", "s", "v">>,
     <<"j", "s", "o", "n">>}

HasAllowedExtension(name) ==
    HasDot(name) /\ ToLowerCase(AfterLastDot(name)) \in AllowedExtensions

\* C10: the upload request never contains a file whose extension is outside
\* {.pdf, .docx, .txt, .csv, .json}, nor a file larger than 10 * 1024 * 1024 bytes.
C10_OnlyAllowedFilesUploaded ==
    \A i \in 1..Len(formData) :
        /\ HasAllowedExtension(formData[i].name)
        /\ formData[i].size <= 10 * 1024 * 1024

\* No file of the list passes both checks of handleFiles.
NoFilePasses(files) ==
    \A i \in 1..Len(files) : ~IsSupported(files[i].name) \/ ~IsValidSize(files[i].size)

Names(list) == [i \in 1..Len(list) |-> list[i].name]

\* C11: when no file of a non-empty selection passes validation, handling it
\* sends no upload request, starts no job, leaves isUploading false, and sets
\* the 'Invalid files' message listing every file of the selection.
C11_NothingValidNothingSent ==
    /\ [](NoFilePasses(selectedFiles) =>
             /\ ~isUploading
             /\ nextJob = 1
             /\ \A j \in Jobs : tasks[j] = IdleTask)
    /\ [][(HandleFiles(selectedFiles) /\ NoFilePasses(selectedFiles)) =>
             /\ UNCHANGED <<tasks, nextJob, formData, isUploading, uploadProgress>>
             /\ upError'.text = "Invalid files"
             /\ Names(upError'.invalid) = Names(selectedFiles)]_vars

\* C11 witness: a selection of two files, one of an unsupported type and one
\* too large, has been handled and nothing was sent.
C11_Witness ==
    /\ Len(selectedFiles) = 2
    /\ NoFilePasses(selectedFiles)
    /\ upError.text = "Invalid files"
    /\ Len(upError.invalid) = 2
    /\ upError.invalid[1].issue # upError.invalid[2].issue
    /\ ~isUploading /\ nextJob = 1

\* files is an order-keeping interleaving of the files sent and the files
\* reported as rejected: every file is in exactly one of the two lists.
RECURSIVE IsSplitOf(_, _, _)
IsSplitOf(files, sent, rejected) ==
    IF files = <<>> THEN sent = <<>> /\ rejected = <<>>
    ELSE \/ /\ sent # <<>>
            /\ Head(sent) = Head(files)
            /\ IsSplitOf(Tail(files), Tail(sent), rejected)
         \/ /\ rejected # <<>>
            /\ Head(rejected).name = Head(files).name
            /\ IsSplitOf(Tail(files), sent, Tail(rejected))

\* The files of the upload request a step issues (none when it issues none).
SentNext == IF nextJob' # nextJob THEN tasks'[nextJob].files ELSE <<>>

\* C12: handling a selection splits it, order kept, into the files sent and
\* the files reported as rejected; a rejected file is reported as unsupported
\* type when its extension is not allowed and otherwise as too large; the
\* upload proceeds with the accepted files whenever there is at least one.
C12_PartialFailureSplit ==
    [][HandleFiles(selectedFiles) =>
         /\ IsSplitOf(selectedFiles, SentNext, upError'.invalid)
         /\ \A i \in 1..Len(upError'.invalid) :
               upError'.invalid[i].issue =
                  IF ~HasAllowedExtension(upError'.invalid[i].name)
                  THEN "Unsupported file type" ELSE "File too large (max 10MB)"
         /\ SentNext # <<>> => (isUploading' /\ tasks'[nextJob].submit = 1)]_vars

\* C12 with the extension taken as handleFiles computes it (a name without a
\* dot is its own extension): the split, the issue reported and the upload of
\* the accepted files.
C12_SplitByComputedExtension ==
    [][HandleFiles(selectedFiles) =>
         /\ IsSplitOf(selectedFiles, SentNext, upError'.invalid)
         /\ \A i \in 1..Len(SentNext) :
               IsSupported(SentNext[i].name) /\ IsValidSize(SentNext[i].size)
         /\ \A i \in 1..Len(upError'.invalid) :
               upError'.invalid[i].issue =
                  IF ~IsSupported(upError'.invalid[i].name)
                  THEN "Unsupported file type" ELSE "File too large (max 10MB)"
         /\ (~NoFilePasses(selectedFiles)) =>
               (SentNext # <<>> /\ isUploading' /\ tasks'[nextJob].submit = 1)]_vars

\* ------------------------------------------------- connector claims
\* The string is empty or consists of whitespace only.
IsBlank(str) == \A i \in 1..Len(str) : str[i] = " "

\* C13: connecting with an empty or whitespace-only connection string sets the
\* validation message, issues no connect request, leaves isConnecting false and
\* starts no polling; a non-blank string is the connection_string of the
\* request exactly as typed.
C13_BlankRefusedElseVerbatim ==
    /\ [](\A j \in Jobs : tasks[j].kind = "db" => ~IsBlank(tasks[j].connection_string))
    /\ [][HandleConnect =>
            IF IsBlank(connectionString)
            THEN /\ dbError' = "Please enter a connection string"
                 /\ ~isConnecting'
                 /\ UNCHANGED <<tasks, nextJob>>
            ELSE /\ nextJob' = nextJob + 1
                 /\ tasks'[nextJob].kind = "db"
                 /\ tasks'[nextJob].submit = 1
                 /\ tasks'[nextJob].statusInFlight = 0
                 /\ tasks'[nextJob].connection_string = connectionString
                 /\ isConnecting']_vars

\* C13 witness: a string with surrounding blanks was sent untrimmed, and a
\* later attempt with a whitespace-only string was refused.
C13_Witness ==
    /\ \E j \in Jobs : /\ tasks[j].kind = "db"
                        /\ tasks[j].connection_string = <<" ", "d", " ">>
    /\ connectionString = <<" ">>
    /\ dbError = "Please enter a connection string"
    /\ ~isConnecting
    /\ \A j \in Jobs : ~Pending(j)

\* ------------------------------------------------ error-detail claims
\* A non-2xx response whose JSON body carries (HasDetail) or lacks (NoDetail)
\* a detail field.
HasDetail(r) == r.net = "http" /\ ~r.ok /\ r.parse /\ r.detail # ""
NoDetail(r) == r.net = "http" /\ ~r.ok /\ r.parse /\ r.detail = ""

TrackedUnchanged(k) ==
    /\ BusyNext(k) = Busy(k)
    /\ ErrorOfNext(k) = ErrorOf(k)
    /\ tasks[k].kind = "upload" => uploadProgress' = uploadProgress

\* C15: a terminal outcome of one job leaves the busy flag, the progress and
\* the error tracked for another, still processing job unchanged, for a
\* database and an upload job and for two upload jobs alike.
C15_JobsIndependent ==
    [][\A j, k \in Jobs, r \in StatusResponses :
         (/\ j # k
          /\ PollOutcome(r) # "processing"
          /\ tasks[k].outcome = "processing" /\ Mounted(k)
          /\ PollStep(j, r)) => TrackedUnchanged(k)]_vars

\* C15 for a database job and an upload job: each component keeps its own
\* flag, progress and error.
C15_DatabaseAndUploadIndependent ==
    [][\A j, k \in Jobs, r \in StatusResponses :
         (/\ tasks[j].kind # tasks[k].kind
          /\ PollOutcome(r) # "processing"
          /\ tasks[k].outcome = "processing" /\ Mounted(k)
          /\ PollStep(j, r)) => TrackedUnchanged(k)]_vars

\* ------------------------------------------------ cancellation claims
\* Job j is being polled: a status request is in flight or its timer is set.
Polled(j) == tasks[j].statusInFlight + tasks[j].timers > 0

\* C16: nothing cancels polling: a polled job stays polled until a terminal
\* response, also across the switch to the query view that unmounts the
\* component which started it, and a job completing after the switch still
\* hands its schema or its file count to the App state.
C16_NoCancellation ==
    /\ [][\A j \in Jobs :
            Polled(j) => (tasks'[j].outcome \in Terminal \/
                          tasks'[j].statusInFlight + tasks'[j].timers > 0)]_vars
    /\ [][SwitchToQuery =>
            \A j \in Jobs : /\ tasks'[j].submit = tasks[j].submit
                             /\ tasks'[j].statusInFlight = tasks[j].statusInFlight
                             /\ tasks'[j].timers = tasks[j].timers]_vars
    /\ [][\A j \in Jobs, r \in StatusResponses :
            (tasks[j].orphan /\ PollOutcome(r) = "completed" /\ PollStep(j, r)) =>
                IF tasks[j].kind = "db"
                THEN schemaData' = r.body.schema /\ connectionStatus' = "connected"
                ELSE documentsCount' = documentsCount + Len(tasks[j].files)]_vars
    /\ \A j \in Jobs : (tasks[j].orphan /\ Polled(j)) ~> Quiescent(j)

\* C16 witness: a job was polled again after the connect view was left, and
\* completed then.
C16_Witness ==
    \E j \in Jobs :
        /\ tasks[j].orphan
        /\ tasks[j].outcome = "completed" /\ tasks[j].successCalls = 1
        /\ tasks[j].kind = "upload"
        /\ documentsCount = Len(tasks[j].files)
        /\ connectionStatus = "connected"

\* -------------------------------------------------- callback claims
\* The status response reports the job completed.
IsCompleted(r) == r.net = "http" /\ r.ok /\ r.parse /\ r.body.status = "completed"

\* C17: a completed database job hands exactly the schema of the completed
\* response to the connection-success callback, a completed upload job hands
\* exactly the number of files sent in its request to the documents-uploaded
\* callback, and no other status response invokes either callback.
C17_CallbackPayloads ==
    /\ [](\A j \in Jobs :
            /\ tasks[j].outcome \in {"failed", "error"} => tasks[j].successCalls = 0
            /\ \A i \in 1..Len(tasks[j].files) : IsValidFile(tasks[j].files[i]))
    /\ [][\A j \in Jobs, r \in StatusResponses :
            PollStep(j, r) =>
                IF IsCompleted(r)
                THEN /\ tasks'[j].successCalls = tasks[j].successCalls + 1
                     /\ tasks[j].kind = "db" =>
                           /\ schemaData' = r.body.schema
                           /\ connectionStatus' = "connected"
                           /\ UNCHANGED documentsCount
                     /\ tasks[j].kind = "upload" =>
                           /\ documentsCount' = documentsCount + Len(tasks[j].files)
                           /\ UNCHANGED <<schemaData, connectionStatus>>
                ELSE /\ tasks'[j].successCalls = tasks[j].successCalls
                     /\ UNCHANGED <<schemaData, connectionStatus, documentsCount>>]_vars

\* C17 witness: a database job delivered its schema and an upload job, from a
\* selection with a rejected file, the count of the one file it sent.
C17_Witness ==
    \E j, k \in Jobs :
        /\ tasks[j].kind = "db" /\ tasks[j].outcome = "completed"
        /\ schemaData = "S1" /\ connectionStatus = "connected"
        /\ tasks[k].kind = "upload" /\ tasks[k].outcome = "completed"
        /\ Len(tasks[k].files) = 1 /\ documentsCount = 1
        /\ upError.text = "Invalid files"

\* --------------------------------------------------- progress claims
\* C18: while an upload job is processing, a successful status response
\* without a progress field leaves the displayed progress unchanged.
C18_ProgressKeptWhenAbsent ==
    [][\A j \in Jobs, r \in StatusResponses :
         (/\ IsNonTerminal(r)
          /\ r.body.progress = NoProgress
          /\ tasks[j].kind = "upload" /\ Mounted(j)
          /\ PollStep(j, r)) => uploadProgress' = uploadProgress]_vars

\* C18 for responses that carry a progress value: the displayed progress
\* becomes that value.
C18_ProgressTakenWhenPresent ==
    [][\A j \in Jobs, r \in StatusResponses :
         (/\ IsNonTerminal(r)
          /\ r.body.progress # NoProgress
          /\ tasks[j].kind = "upload" /\ Mounted(j)
          /\ PollStep(j, r)) => uploadProgress' = r.body.progress]_vars

\* ------------------------------------------------ results-view claims
\* C19: for a result that is not an error, query_type alone selects the
\* rendering: 'help' the advisory view, 'hybrid' the hybrid view, 'document'
\* the document view, 'sql' (or an absent query_type with non-empty results)
\* the table; never more than one of them is selected.
C19_ModeByQueryType ==
    rendered.view = "results" =>
        /\ queryResults.query_type = "help" => rendered.modes = {"advisory"}
        /\ queryResults.query_type = "hybrid" => rendered.modes = {"hybrid"}
        /\ queryResults.query_type = "document" => rendered.modes = {"document"}
        /\ queryResults.query_type = "sql" => rendered.modes = {"tabular"}
        /\ (queryResults.query_type = "" /\ queryResults.results # <<>>) =>
              rendered.modes = {"tabular"}
        /\ Cardinality(rendered.modes) <= 1

\* C19 witness: a hybrid result with three items has been rendered in the
\* hybrid view.
C19_Witness ==
    /\ rendered.view = "results"
    /\ queryResults.query_type = "hybrid"
    /\ Len(queryResults.results) = 3
    /\ rendered.modes = {"hybrid"}

\* seq is an order-keeping interleaving of a and b: every item of seq is in
\* exactly one of the two, in the relative order it has in seq.
RECURSIVE IsInterleaving(_, _, _)
IsInterleaving(seq, a, b) ==
    IF seq = <<>> THEN a = <<>> /\ b = <<>>
    ELSE \/ /\ a # <<>>
            /\ Head(a) = Head(seq)
            /\ IsInterleaving(Tail(seq), Tail(a), b)
         \/ /\ b # <<>>
            /\ Head(b) = Head(seq)
            /\ IsInterleaving(Tail(seq), a, Tail(b))

\* C20: the hybrid view splits results into a database bucket (source
\* 'database' or missing) and a document bucket (source 'document'); every
\* item is in exactly one bucket and each bucket keeps the order of results.
C20_HybridPartition ==
    (rendered.view = "results" /\ queryResults.query_type = "hybrid") =>
        /\ IsInterleaving(queryResults.results, rendered.buckets.database,
                          rendered.buckets.document)
        /\ \A i \in 1..Len(rendered.buckets.database) :
              \/ Get(rendered.buckets.database[i], SourceKey) = Database
              \/ ~HasKey(rendered.buckets.database[i], SourceKey)
        /\ \A i \in 1..Len(rendered.buckets.document) :
              Get(rendered.buckets.document[i], SourceKey) = Document

\* C20 witness: a document item followed by an untagged and a database item
\* has been split into a bucket of two and a bucket of one.
C20_Witness ==
    /\ rendered.view = "results"
    /\ queryResults.query_type = "hybrid"
    /\ Len(queryResults.results) = 3
    /\ Get(queryResults.results[1], SourceKey) = Document
    /\ ~HasKey(queryResults.results[2], SourceKey)
    /\ Get(queryResults.results[3], SourceKey) = Database
    /\ rendered.buckets.database = <<queryResults.results[2], queryResults.results[3]>>
    /\ rendered.buckets.document = <<queryResults.results[1]>>


\* ------------------------------------------------------------------ C21
\* C21: a help result is displayed from results[0] alone: whatever elements
\* follow the first one, and however many, the view of a help result whose
\* first element is the same is the view that was rendered.
C21_HelpReadsFirstRecordOnly ==
    (/\ rendered.view = "results"
     /\ queryResults.query_type = "help"
     /\ queryResults.results # <<>>)
    => \A rest \in SeqsUpTo(AdvisoryRecords \cup ResultItems, MaxResults - 1) :
          ResultsView([queryResults EXCEPT !.results = <<Head(queryResults.results)>> \o rest],
                      FALSE) = rendered

\* A help result of three records, the second with another message and no
\* suggestions, rendered with the message and the suggestions of the first.
C21_Witness ==
    /\ rendered.view = "results"
    /\ queryResults.query_type = "help"
    /\ Len(queryResults.results) = MaxResults
    /\ Get(queryResults.results[1], MessageKey) = Str(<<"m", "1">>)
    /\ HasKey(queryResults.results[1], SuggestionsKey)
    /\ Get(queryResults.results[2], MessageKey) = Str(<<"m", "2">>)
    /\ ~HasKey(queryResults.results[2], SuggestionsKey)
    /\ rendered.advisory.message = Str(<<"m", "1">>)
    /\ rendered.advisory.suggestions = << <<"s", "1">> >>


\* ------------------------------------------------------------------ C22
\* C22: for a tabular result with at least one row, the displayed columns
\* are the keys of results[0] in their order, and every row is rendered with
\* one cell per column: the row's value under that key, or the empty-value
\* placeholder when the row has no such key.  A key that only a later row
\* has is therefore not displayed.
C22_ColumnsOfFirstRow ==
    (/\ rendered.view = "results"
     /\ "tabular" \in rendered.modes
     /\ queryResults.results # <<>>)
    => LET data == queryResults.results
           keys == ObjectKeys(data[1])
           table == rendered.table
       IN  /\ table.shown
           /\ table.headers = keys
           /\ Len(table.rows) = Len(data)
           /\ \A i \in 1..Len(data) :
                /\ Len(table.rows[i]) = Len(keys)
                /\ \A c \in 1..Len(keys) :
                     IF HasKey(data[i], keys[c])
                     THEN table.rows[i][c].value = Get(data[i], keys[c])
                     ELSE table.rows[i][c].fmt = "placeholder"

\* Three rows rendered: the first has the salary key only, the second has a
\* hire_date key in front of it, the third has no key at all.
C22_Witness ==
    /\ rendered.view = "results"
    /\ "tabular" \in rendered.modes
    /\ Len(queryResults.results) = MaxResults
    /\ ObjectKeys(queryResults.results[1]) = <<SalaryKey>>
    /\ ObjectKeys(queryResults.results[2]) = <<HireDateKey, SalaryKey>>
    /\ queryResults.results[3] = <<>>
    /\ rendered.table.headers = <<SalaryKey>>
    /\ rendered.table.rows[2][1].fmt = "currency"
    /\ rendered.table.rows[3][1].fmt = "placeholder"


\* ------------------------------------------------------------------ C23
\* String.prototype.split on a one-character separator: the pieces between
\* the occurrences, a single empty piece for the empty string.
RECURSIVE SplitAt(_, _)
SplitAt(str, ch) ==
    IF \E i \in 1..Len(str) : str[i] = ch
    THEN LET i == CHOOSE k \in 1..Len(str) :
                     str[k] = ch /\ \A m \in 1..(k - 1) : str[m] # ch
         IN  <<SubSeq(str, 1, i - 1)>> \o SplitAt(SubSeq(str, i + 1, Len(str)), ch)
    ELSE <<str>>

\* No key and no value of the rows contains the character.
FreeOf(data, ch) ==
    \A i \in 1..Len(data) : \A c \in 1..Len(data[i]) :
        /\ ~Includes(data[i][c].key, <<ch>>)
        /\ ~Includes(ToText(data[i][c].value), <<ch>>)

\* The lines of the file are the header line, which split by ',' gives the
\* keys of the first row in order, and then one line per row, which split by
\* ',' gives the values of that row under those keys in the same order.
CsvMatchesRows(data, content) ==
    LET keys == ObjectKeys(data[1])
        lines == SplitAt(content, "\n")
    IN  /\ Len(lines) = Len(data) + 1
        /\ SplitAt(lines[1], ",") = keys
        /\ \A i \in 1..Len(data) :
             SplitAt(lines[i + 1], ",") = [c \in 1..Len(keys) |-> ToText(Get(data[i], keys[c]))]

\* C23 as stated: for every exported non-empty row set whose keys and values
\* contain no comma, the CSV text matches the rows line by line.
C23_CsvMatchesRowsWithoutComma ==
    (rendered.download.done /\ FreeOf(queryResults.results, ","))
    => CsvMatchesRows(queryResults.results, rendered.download.content)

\* C23, amended: for every exported non-empty row set whose first row has at
\* least one key and whose keys and values contain no comma and no newline,
\* the CSV text matches the rows line by line.
C23_CsvMatchesRowsWithoutCommaOrNewline ==
    (/\ rendered.download.done
     /\ queryResults.results[1] # <<>>
     /\ FreeOf(queryResults.results, ",")
     /\ FreeOf(queryResults.results, "\n"))
    => CsvMatchesRows(queryResults.results, rendered.download.content)

\* An export of three rows free of commas and newlines: the first with both
\* keys, the second without the first key, the third with the keys in the
\* other order.
C23_Witness ==
    /\ rendered.download.done
    /\ Len(queryResults.results) = MaxResults
    /\ FreeOf(queryResults.results, ",")
    /\ FreeOf(queryResults.results, "\n")
    /\ ObjectKeys(queryResults.results[1]) = <<HireDateKey, SalaryKey>>
    /\ ObjectKeys(queryResults.results[2]) = <<SalaryKey>>
    /\ ObjectKeys(queryResults.results[3]) = <<SalaryKey, HireDateKey>>
    /\ SplitAt(rendered.download.content, "\n")
         = <<HireDateKey \o <<",">> \o SalaryKey,
             <<"x", ",", "5">>, <<",", "5">>, <<"x", ",", "5">> >>


\* ------------------------------------------------------------------ C24
\* C24: fetchSuggestions, which handleQueryChange calls for a text that is
\* not blank, issues no request and empties the list when the text has fewer
\* than 2 characters, and issues exactly one request, for that text, when it
\* has 2 or more; nothing else issues a suggestion request.
C24_SuggestionRequestPerInvocation ==
    [][/\ \A value \in QueryStrings :
            (Trim(value) # <<>> /\ handleQueryChange(value))
            => IF Len(value) < 2
               THEN suggestionReqs' = suggestionReqs /\ suggestions' = <<>>
               ELSE suggestionReqs' = Append(suggestionReqs, value)
       /\ Len(suggestionReqs') > Len(suggestionReqs)
            => \E value \in QueryStrings : Len(value) >= 2 /\ handleQueryChange(value)]_vars

\* 'qq' was typed, which issued a request, and then 'q', which issued none
\* and emptied the list.
C24_Witness ==
    /\ suggestionReqs = << <<"q", "q">> >>
    /\ query = <<"q">>
    /\ showSuggestions
    /\ suggestions = <<>>


\* ------------------------------------------------------------------ C25
\* C25: a connect or upload POST is issued only by the user action
\* (handleConnect, handleFiles), one for the job that action creates; a query
\* POST only by handleSubmit, one per submission; and a connect or upload
\* POST that failed (rejected, unreadable or not 2xx) leaves its job with
\* no request and no timer outstanding.
C25_NoAutomaticRetry ==
    [][/\ \A j \in Jobs :
            tasks'[j].submit > tasks[j].submit
            => /\ j = nextJob
               /\ tasks'[j].submit = 1
               /\ HandleConnect \/ \E files \in JobFileLists : HandleFiles(files)
       /\ queryInFlight' > queryInFlight
            => queryInFlight' = queryInFlight + 1 /\ handleSubmit
       /\ \A j \in Jobs, r \in SubmitResponses :
            (/\ SubmitOutcome(r) # "accepted"
             /\ ConnectResolve(j, r) \/ UploadResolve(j, r))
            => tasks'[j].submit + tasks'[j].statusInFlight + tasks'[j].timers = 0
       /\ \A r \in QueryResponses :
            QueryResolve(r) => queryInFlight' = queryInFlight - 1]_vars

\* A connect attempt whose POST was rejected: the error is shown and nothing
\* of the job is outstanding.
C25_Witness ==
    /\ \E j \in Jobs :
         /\ tasks[j].kind = "db"
         /\ tasks[j].outcome = "refused"
         /\ ~Pending(j)
    /\ dbError = "Network error: Could not connect to backend"
    /\ ~isConnecting


\* ------------------------------------------------------------------ C26
\* C26: connectionStatus changes only from 'disconnected' to 'connected' and
\* only in the step in which a status request of a database job settles as
\* completed; once 'connected' it stays so; and a connect attempt that fails,
\* by validation, by its POST or by its status poll, leaves connectionStatus
\* and schemaData as they were.
C26_ConnectionStatusOnlyRises ==
    [][/\ connectionStatus' # connectionStatus
            => /\ connectionStatus = "disconnected"
               /\ connectionStatus' = "connected"
               /\ \E j \in Jobs, r \in StatusResponses :
                    PollOutcome(r) = "completed" /\ PollConnectionStatus(j, r)
       /\ connectionStatus = "connected" => connectionStatus' = "connected"
       /\ (HandleConnect /\ Trim(connectionString) = <<>>)
            => UNCHANGED <<connectionStatus, schemaData>>
       /\ \A j \in Jobs, r \in SubmitResponses :
            (SubmitOutcome(r) # "accepted" /\ ConnectResolve(j, r))
            => UNCHANGED <<connectionStatus, schemaData>>
       /\ \A j \in Jobs, r \in StatusResponses :
            (PollOutcome(r) \in FailureOutcomes /\ PollConnectionStatus(j, r))
            => UNCHANGED <<connectionStatus, schemaData>>]_vars

\* A first database job completed and, the component still mounted, a second
\* one failed: the App is still connected and holds the schema.
C26_Witness ==
    /\ tasks[1].kind = "db" /\ tasks[1].outcome = "completed" /\ ~tasks[1].orphan
    /\ tasks[2].kind = "db" /\ tasks[2].outcome = "failed"
    /\ dbError # ""
    /\ connectionStatus = "connected"
    /\ schemaData # "null"


\* ------------------------------------------------------------------ C27
\* The number of files job j sent, if it is an upload job that completed.
CompletedFiles(j) ==
    IF tasks[j].kind = "upload" /\ tasks[j].outcome = "completed"
    THEN Len(tasks[j].files) ELSE 0

RECURSIVE CompletedFilesUpTo(_)
CompletedFilesUpTo(n) ==
    IF n = 0 THEN 0 ELSE CompletedFiles(n) + CompletedFilesUpTo(n - 1)

\* C27: documentsCount is always the sum, over the upload jobs that have
\* completed, of the number of files that passed validation and were sent;
\* it never decreases, and a step in which an upload job fails, by its POST
\* or by its status poll, leaves it unchanged.
C27_DocumentsCountIsSumOfCompleted ==
    /\ [](documentsCount = CompletedFilesUpTo(MaxJobs))
    /\ [][/\ documentsCount' >= documentsCount
          /\ \A j \in Jobs, r \in SubmitResponses :
               (SubmitOutcome(r) # "accepted" /\ UploadResolve(j, r))
               => documentsCount' = documentsCount
          /\ \A j \in Jobs, r \in StatusResponses :
               (PollOutcome(r) \in FailureOutcomes /\ PollUploadStatus(j, r))
               => documentsCount' = documentsCount]_vars

\* Two upload jobs, of two files and of one, have both completed.
C27_Witness ==
    /\ tasks[1].kind = "upload" /\ tasks[1].outcome = "completed"
    /\ tasks[2].kind = "upload" /\ tasks[2].outcome = "completed"
    /\ Len(tasks[1].files) = 2
    /\ Len(tasks[2].files) = 1
    /\ documentsCount = 3


\* ------------------------------------------------------------------ C28
\* The database jobs of the mounted DatabaseConnector that have a connect
\* request, a status request or a poll timer outstanding.
TrackedDatabaseJobs ==
    {j \in Jobs : tasks[j].kind = "db" /\ Mounted(j) /\ Pending(j)}

\* C28: isConnecting is true exactly when the mounted DatabaseConnector has
\* a connect request, a status request or a poll timer outstanding, and it
\* has that for at most one database job.
C28_IsConnectingIffOutstanding ==
    /\ isConnecting <=> TrackedDatabaseJobs # {}
    /\ Cardinality(TrackedDatabaseJobs) <= 1

\* A second database job of the same component is waiting on its poll timer,
\* the first one having ended.
C28_Witness ==
    /\ isConnecting
    /\ tasks[1].kind = "db" /\ ~tasks[1].orphan /\ ~Pending(1)
    /\ tasks[2].kind = "db" /\ ~tasks[2].orphan /\ tasks[2].timers = 1


\* ------------------------------------------------------------------ C29
\* C29: when no suggestion request is outstanding, every one having been
\* answered with a list, and the text typed last was long enough to be sent,
\* the list held is the one the service returned for that text.
C29_LatestSuggestionsWin ==
    (/\ suggestionReqs = <<>>
     /\ Trim(query) # <<>>
     /\ Len(query) >= 2)
    => suggestions = SuggestionsFor(query)


\* ------------------------------------------------------------------ C30
\* C30: a history refresh is issued one at a time and only once the request
\* of the submitted query has resolved: a step that issues a history request
\* issues exactly one and leaves no query request outstanding.
C30_HistoryRefreshAfterQuery ==
    [][historyReqs' > historyReqs
          => historyReqs' = historyReqs + 1 /\ queryInFlight' = 0]_vars

====
